---- MODULE Spec2Model ----
(***************************************************************************)
(* A model of the credential / dispatch core of gemini.py: the account     *)
(* registry (AccountManager), the token and session brokers                *)
(* (ensure_jwt_for_account, ensure_session_for_account) and the failover   *)
(* loop of chat_completions, with the registry lock and wall-clock time.   *)
(*                                                                         *)
(* Time is counted in steps of 30 seconds, the greatest common divisor of  *)
(* every duration the code names (30, 60, 120, 240 and 300 seconds).       *)
(***************************************************************************)
EXTENDS Integers, Sequences, FiniteSets, TLC

\* ----------------------------------------------------------------- bounds
NumAccounts == 3      \* accounts in the configuration file
NumRequests == 2      \* inbound chat requests, one thread each
MaxTime     == 11     \* the clock stops advancing here (330 s)
MaxImports  == 1      \* imports of the configuration
MaxEnvelopes == 2     \* envelopes in a streamed reply body
MaxReplies  == 2      \* replies in a streamed reply body
NumFiles    == 2     \* file names in the image cache
MaxCacheTime == 4    \* the cache clock stops advancing here (2 h)
MaxNameLen  == 4     \* characters in a requested file name
MaxEdits == 2         \* account operations (add, update, delete) served
MaxImages == 3        \* images persisted into the cache
NumStems == 2         \* file names the upstream gives to images
MaxMessages == 3     \* messages in the body of a chat request

\* ------------------------------------------------------- program constants
JWT_REFRESH_AGE  == 240   \* ensure_jwt_for_account: refresh when older
JWT_LIFETIME     == 300   \* create_jwt: exp = iat + 300
TOKEN_TIMEOUT    == 30    \* get_jwt_for_account: requests.get timeout
SESSION_TIMEOUT  == 30    \* create_chat_session: requests.post timeout
INPUT_TIMEOUT    == 60    \* download_image_from_url: requests.get timeout
CHAT_TIMEOUT     == 120   \* stream_chat_with_images: requests.post timeout
METADATA_TIMEOUT == 30    \* get_session_file_metadata: requests.post timeout
DOWNLOAD_TIMEOUT == 120   \* download_file_with_jwt: requests.get timeout
IMAGE_CACHE_HOURS == 1    \* the cache keeps a file for one hour

Ticks(seconds) == seconds \div 30

Accounts == 0 .. (NumAccounts - 1)
Requests == 1 .. NumRequests
FileNames == 1 .. NumFiles
Free     == 0

\* Absent values, one per type.
NoReason  == "absent"
NoTime    == -1
NoSession == 0
NoError   == "None"
NoIndex   == -1
NoState   == -1

JwtError      == "token_exchange_failed"
SessionError  == "create_session_failed"
SendError     == "request_failed"
NoAccountsErr == "no_available_account"
KeyErr        == "KeyError"

VARIABLES
    accounts,        \* AccountManager.accounts: index -> account record
    account_states,  \* AccountManager.account_states: index -> runtime state
    current_index,   \* AccountManager.current_index, the rotation cursor
    lock,            \* AccountManager.lock: Free or the request that holds it
    now,             \* time.time(), in steps of 30 s
    pc,              \* where each request's thread is
    max_retries,     \* chat_completions: max_retries
    attempt,         \* chat_completions: iterations of the for loop started
    account_idx,     \* chat_completions: account_idx of the current attempt
    jwt,             \* chat_completions: jwt of the current attempt
    session,         \* chat_completions: session of the current attempt
    last_error,      \* chat_completions: last_error
    call_start,      \* when the outbound call in progress was started
    state_ref,       \* ensure_*_for_account: the state dict the thread holds
    response,        \* chat_completions: what the request is answered
    failed,          \* observer: attempts of the request that raised
    raised,          \* observer: the error the latest such attempt raised
    obs,             \* observer of direct calls on the registry
    call,            \* a function called on its own: its input and result
    full_response,   \* stream_chat_with_images: the reply body collected
    asm_pc,          \* stream_chat_with_images: where the assembly is
    cursor,          \* stream_chat_with_images: position of the running loop
    texts,           \* stream_chat_with_images: texts
    file_ids,        \* stream_chat_with_images: file_ids
    current_session, \* stream_chat_with_images: current_session
    result,          \* stream_chat_with_images: result (ChatResponse)
    cache_clock,     \* time.time(), in steps of 1800 s
    image_cache,     \* the files of IMAGE_CACHE_DIR: name -> file
    sweep,           \* cleanup_expired_images: each request's running sweep
    account,         \* chat_completions: account, the dict of the attempt
    edits            \* account operations served so far

vars == <<accounts, account_states, current_index, lock, now, pc, max_retries,
          attempt, account_idx, jwt, session, last_error, call_start,
          state_ref, response, failed, raised, obs, call, full_response,
          asm_pc, cursor, texts, file_ids, current_session, result,
          cache_clock, image_cache, sweep, account, edits>>

registry == <<accounts, account_states, current_index>>
assembly == <<full_response, asm_pc, cursor, texts, file_ids,
              current_session, result>>
store    == <<cache_clock, image_cache, sweep>>
editing  == <<account, edits>>
others   == <<call, assembly, store, editing>>
core     == <<accounts, account_states, current_index, lock, now, pc,
              max_retries, attempt, account_idx, jwt, session, last_error,
              call_start, state_ref, response, failed, raised, obs, editing>>
locals   == <<max_retries, attempt, account_idx, jwt, session, last_error,
              call_start, state_ref, response, failed, raised>>

\* ------------------------------------------------------------- the token
NoJwt == [sub |-> NoIndex, iat |-> 0, exp |-> 0, nbf |-> 0]

\* A forge whose tokens all expire at one fixed time, 300 s after the
\* clock's origin (mutant).
ExpiresAtFixedTime(csesidx, t) ==
    [sub |-> csesidx, iat |-> t, exp |-> Ticks(JWT_LIFETIME), nbf |-> t]

\* create_jwt: the claims of a token minted at time t for the account.
create_jwt(csesidx, t) ==
    [sub |-> csesidx, iat |-> t, exp |-> t + Ticks(JWT_LIFETIME), nbf |-> t]


\* --------------------------------------------------------- AccountManager
NumAcc == Cardinality(DOMAIN accounts)            \* len(self.accounts)

AllIndexes == [k \in 1 .. NumAcc |-> k - 1]       \* enumerate(self.accounts)

\* account_states.get(i, {}).get("available", True)
StateAvailable(i) ==
    IF i \in DOMAIN account_states THEN account_states[i].available ELSE TRUE

\* AccountManager.get_available_accounts: the indexes, ascending.
get_available_accounts == SelectSeq(AllIndexes, StateAvailable)

\* A cursor that is not advanced (mutant).
CursorKept(available) == current_index % Len(available)

\* AccountManager.get_next_account, lines 106-108, for a non-empty list.
CursorNormalised(available) == current_index % Len(available)
NextSelected(available)     == available[CursorNormalised(available) + 1]
CursorAdvanced(available)   == (CursorNormalised(available) + 1) % Len(available)

\* A selection that falls back on the whole list when no account is
\* available (mutant).
FallsBackOnAll(index) ==
    LET available == IF get_available_accounts = <<>> /\ NumAcc > 0
                     THEN AllIndexes ELSE get_available_accounts
    IN  IF available = <<>>
        THEN index = NoIndex /\ UNCHANGED current_index
        ELSE index = NextSelected(available)
             /\ current_index' = CursorAdvanced(available)

\* AccountManager.get_next_account, the body under the lock: index is the
\* account returned, or NoIndex when the call raises (line 103).
get_next_account(index) ==
    LET available == get_available_accounts IN
    IF available = <<>>
    THEN index = NoIndex /\ UNCHANGED current_index
    ELSE index = NextSelected(available)
         /\ current_index' = CursorAdvanced(available)

\* AccountManager.get_account_count
get_account_count == <<NumAcc, Len(get_available_accounts)>>

\* A mark that forgets the runtime state (mutant).
MarkRecordOnly(index, reason) ==
    /\ accounts' = IF index \in DOMAIN accounts
                   THEN [accounts EXCEPT ![index].available = FALSE,
                                         ![index].unavailable_reason = reason,
                                         ![index].unavailable_time = now]
                   ELSE accounts
    /\ UNCHANGED account_states

\* AccountManager.mark_account_unavailable, the body under the lock.
MarkUnavailable(index, reason) ==
    IF 0 <= index /\ index < NumAcc
    THEN /\ accounts' = [accounts EXCEPT ![index].available = FALSE,
                                         ![index].unavailable_reason = reason,
                                         ![index].unavailable_time = now]
         /\ account_states' = [account_states EXCEPT ![index].available = FALSE]
    ELSE UNCHANGED <<accounts, account_states>>

\* A toggle that keeps the stored failure (mutant).
ToggleKeepsReason(account_id) ==
    LET current == StateAvailable(account_id) IN
    /\ account_states' = [account_states EXCEPT ![account_id].available = ~current]
    /\ accounts' = [accounts EXCEPT ![account_id].available = ~current]

\* toggle_account, for an index of the list (another index answers 404).
ToggleAvailable(account_id) ==
    LET current == StateAvailable(account_id) IN
    /\ account_states' = [account_states EXCEPT ![account_id].available = ~current]
    /\ accounts' =
         IF ~current
         THEN [accounts EXCEPT ![account_id].available = TRUE,
                               ![account_id].unavailable_reason = NoReason,
                               ![account_id].unavailable_time = NoTime]
         ELSE [accounts EXCEPT ![account_id].available = FALSE]

\* A broker that refreshes a token already at the age of 240 s (mutant).
RefreshesAtAge(state) ==
    state.jwt = NoJwt \/ now - state.jwt_time >= Ticks(JWT_REFRESH_AGE)

\* ensure_jwt_for_account, line 244: is a token exchange needed?
NeedsRefresh(state) ==
    state.jwt = NoJwt \/ now - state.jwt_time > Ticks(JWT_REFRESH_AGE)

\* ensure_jwt_for_account, lines 247-248: the new token is cached.
StoreJwt(states, index, token) ==
    [states EXCEPT ![index].jwt = token, ![index].jwt_time = now]

\* A broker that creates a session on every call (mutant).
AlwaysCreate(state) == TRUE

\* ensure_session_for_account, line 291: is a session to be created?
NeedsSession(state) == state.session = NoSession

\* ensure_session_for_account, line 294: the created session is cached.
StoreSession(states, index, name) == [states EXCEPT ![index].session = name]

\* Lines 243 and 290 bind state to the dict of the account; the writes of
\* lines 247-248 and 294 reach the registry while that dict is still its.
Held(r) == account_states[account_idx[r]].id = state_ref[r]

\* A lock that is never taken (mutant).
NoLock(r) == TRUE

\* threading.Lock: acquire succeeds only on a free lock, whoever asks.
CanAcquire(r) == lock = Free

\* A lock kept on the way out of the session creation (mutant).
LockKept(r) == IF pc[r] = "session_call" THEN r ELSE Free

\* Leaving a with block of the lock (lines 242 and 289) releases it.
LockReleased(r) == Free


\* ------------------------------------------- direct calls on the registry
\* What the observer of direct calls remembers: the last call, its
\* argument and result, the registry before it, the accounts selected since
\* the set of available accounts last changed (the latest 2 * len(accounts)
\* of them), the accounts marked unavailable and not re-enabled since, and
\* how often each request's dispatch has been given each account.
NoObservation == [op |-> "none", arg |-> NoIndex, ret |-> NoIndex,
                  before |-> <<>>, log |-> <<>>, marked |-> {},
                  tried |-> [r \in Requests |-> [i \in Accounts |-> 0]]]

Latest(log) ==
    IF Len(log) > 2 * NumAcc THEN SubSeq(log, 2, Len(log)) ELSE log

AvailableSet(states) == {i \in DOMAIN states : states[i].available}

\* get_next_account called on its own.
CallGetNext ==
    /\ CanAcquire(0)
    /\ \E index \in DOMAIN accounts \cup {NoIndex} :
         /\ get_next_account(index)
         /\ obs' = [op |-> "get_next_account", arg |-> NoIndex, ret |-> index,
                    before |-> registry,
                    log |-> IF index = NoIndex THEN obs.log
                            ELSE Latest(Append(obs.log, index)),
                    marked |-> obs.marked, tried |-> obs.tried]
    /\ UNCHANGED <<accounts, account_states, lock, now, pc, locals, others>>

\* mark_account_unavailable called on its own, with any index.
CallMark ==
    /\ CanAcquire(0)
    /\ \E index \in -1 .. NumAcc :
         /\ MarkUnavailable(index, JwtError)
         /\ obs' = [op |-> "mark_account_unavailable", arg |-> index,
                    ret |-> NoIndex, before |-> registry,
                    log |-> IF AvailableSet(account_states')
                                 = AvailableSet(account_states)
                            THEN obs.log ELSE <<>>,
                    marked |-> obs.marked \cup ({index} \cap DOMAIN accounts),
                    tried |-> obs.tried]
    /\ UNCHANGED <<current_index, lock, now, pc, locals, others>>

\* toggle_account (lines 1101-1118), which takes no lock.
CallToggle ==
    /\ \E account_id \in DOMAIN accounts :
         /\ ToggleAvailable(account_id)
         /\ obs' = [op |-> "toggle_account", arg |-> account_id,
                    ret |-> NoIndex, before |-> registry, log |-> <<>>,
                    marked |-> obs.marked \ {account_id}, tried |-> obs.tried]
    /\ UNCHANGED <<current_index, lock, now, pc, locals, others>>

\* ------------------------------------------------------- chat_completions
InCall == {"jwt_call", "session_call", "image_download", "chat_call",
           "meta_call", "download"}

\* Where a thread is about to take the lock.
AtLock == {"select", "ensure_jwt", "ensure_session"}

\* The timeout= argument of the outbound call a thread is in.
Timeout(p) ==
    CASE p = "jwt_call"     -> Ticks(TOKEN_TIMEOUT)
      [] p = "session_call" -> Ticks(SESSION_TIMEOUT)
      [] p = "image_download" -> Ticks(INPUT_TIMEOUT)
      [] p = "chat_call"    -> Ticks(CHAT_TIMEOUT)
      [] p = "meta_call"    -> Ticks(METADATA_TIMEOUT)
      [] p = "download"     -> Ticks(DOWNLOAD_TIMEOUT)

\* A loop that runs once more than there are accounts (mutant).
OneMoreAttempt(started, limit) == started <= limit

\* chat_completions, line 817: for _ in range(max_retries).
MoreAttempts(started, limit) == started < limit

\* An except clause that keeps the first error (mutant).
KeepFirstError(old, e) == IF old = NoError THEN e ELSE old

\* chat_completions, line 829: last_error = e.
RecordError(old, e) == e

\* The session name the upstream returns for the session id this attempt
\* generated (uuid4, line 258): unlike every other attempt's.
FreshSession(r) == r * (NumAccounts + 2) + attempt[r]

NoResponse == [status |-> 0, error |-> NoError, account |-> NoIndex]

\* Line 810: no user message.
BadRequest == [status |-> 400, error |-> "no_user_message", account |-> NoIndex]

\* Line 833: every attempt failed; the message carries last_error.
AllFailed(e) == [status |-> 500, error |-> e, account |-> NoIndex]

\* Lines 836-892: the completion built from the chat response of the account.
Completion(index) == [status |-> 200, error |-> NoError, account |-> index]

\* Lines 828-833: the except clause, then the next iteration or, when the
\* range is exhausted, the else clause (HTTP 500 with last_error).  The
\* attempt's locals are dead from here on and are cleared.
RaiseInAttempt(r, e) ==
    /\ last_error' = [last_error EXCEPT ![r] = RecordError(@, e)]
    /\ failed' = [failed EXCEPT ![r] = @ + 1]
    /\ raised' = [raised EXCEPT ![r] = e]
    /\ IF MoreAttempts(attempt[r], max_retries[r])
       THEN /\ attempt' = [attempt EXCEPT ![r] = @ + 1]
            /\ pc' = [pc EXCEPT ![r] = "select"]
            /\ response' = response
       ELSE /\ attempt' = attempt
            /\ pc' = [pc EXCEPT ![r] = "failed"]
            /\ response' = [response EXCEPT ![r] = AllFailed(last_error'[r])]
    /\ account_idx' = [account_idx EXCEPT ![r] = NoIndex]
    /\ jwt' = [jwt EXCEPT ![r] = NoJwt]
    /\ session' = [session EXCEPT ![r] = NoSession]
    /\ call_start' = [call_start EXCEPT ![r] = 0]
    /\ state_ref' = [state_ref EXCEPT ![r] = NoState]
    /\ UNCHANGED max_retries

\* Lines 789-817: the request arrives; without a user message it is answered
\* 400, otherwise the loop over len(accounts) attempts starts.
Start(r) ==
    /\ pc[r] = "idle"
    /\ \E valid \in BOOLEAN :
         IF ~valid
         THEN /\ pc' = [pc EXCEPT ![r] = "rejected"]
              /\ response' = [response EXCEPT ![r] = BadRequest]
              /\ UNCHANGED <<max_retries, attempt>>
         ELSE /\ max_retries' = [max_retries EXCEPT ![r] = NumAcc]
              /\ IF MoreAttempts(0, NumAcc)
                 THEN /\ attempt' = [attempt EXCEPT ![r] = 1]
                      /\ pc' = [pc EXCEPT ![r] = "select"]
                      /\ response' = response
                 ELSE /\ attempt' = attempt
                      /\ pc' = [pc EXCEPT ![r] = "failed"]
                      /\ response' = [response EXCEPT ![r] = AllFailed(last_error[r])]
    /\ UNCHANGED <<registry, lock, now, account_idx, jwt, session, last_error,
                   call_start, failed, raised, obs, state_ref, others>>

\* Line 819: get_next_account, the whole of it under the lock.
Selection(r) ==
    /\ pc[r] = "select"
    /\ CanAcquire(r)
    /\ \E index \in DOMAIN accounts \cup {NoIndex} :
         /\ get_next_account(index)
         /\ IF index = NoIndex
            THEN RaiseInAttempt(r, NoAccountsErr)
            ELSE /\ account_idx' = [account_idx EXCEPT ![r] = index]
                 /\ pc' = [pc EXCEPT ![r] = "ensure_jwt"]
                 /\ UNCHANGED <<max_retries, attempt, jwt, session, last_error,
                                call_start, state_ref, response, failed, raised>>
    /\ UNCHANGED <<accounts, account_states, lock, now, others>>

Select(r) == Selection(r) /\ UNCHANGED obs

\* The same, the observer noting the account the dispatch was given.
NotedSelect(r) ==
    /\ Selection(r)
    /\ obs' = IF account_idx'[r] = NoIndex THEN obs
              ELSE [obs EXCEPT !.tried[r][account_idx'[r]] = @ + 1]

\* ensure_jwt_for_account, lines 242-245 and 253: the cached token is
\* returned, or the exchange starts with the lock held.
EnsureJwt(r) ==
    /\ pc[r] = "ensure_jwt"
    /\ CanAcquire(r)
    /\ LET state == account_states[account_idx[r]] IN
       IF NeedsRefresh(state)
       THEN /\ lock' = r
            /\ pc' = [pc EXCEPT ![r] = "jwt_call"]
            /\ call_start' = [call_start EXCEPT ![r] = now]
            /\ state_ref' = [state_ref EXCEPT ![r] = state.id]
            /\ jwt' = jwt
       ELSE /\ lock' = lock
            /\ pc' = [pc EXCEPT ![r] = "ensure_session"]
            /\ call_start' = call_start
            /\ state_ref' = state_ref
            /\ jwt' = [jwt EXCEPT ![r] = state.jwt]
    /\ UNCHANGED <<registry, now, max_retries, attempt, account_idx, session,
                   last_error, response, failed, raised, obs, others>>

\* Lines 247-248 and 253: the exchange answers, the token is minted and
\* cached, the lock is released.
JwtOk(r) ==
    /\ pc[r] = "jwt_call"
    /\ LET token == create_jwt(accounts[account_idx[r]].csesidx, now) IN
       /\ account_states' = IF Held(r)
                            THEN StoreJwt(account_states, account_idx[r], token)
                            ELSE account_states
       /\ jwt' = [jwt EXCEPT ![r] = token]
    /\ lock' = LockReleased(r)
    /\ pc' = [pc EXCEPT ![r] = "ensure_session"]
    /\ call_start' = [call_start EXCEPT ![r] = 0]
    /\ state_ref' = [state_ref EXCEPT ![r] = NoState]
    /\ UNCHANGED <<accounts, current_index, now, max_retries, attempt,
                   account_idx, session, last_error, response, failed, raised, obs, others>>

\* Lines 249-252: the exchange raises.  The handler calls
\* mark_account_unavailable, whose first statement acquires the lock: when
\* that succeeds the account is marked and the error re-raised, leaving the
\* with block of line 242; otherwise the thread waits in acquire.
JwtFail(r) ==
    /\ pc[r] = "jwt_call"
    /\ IF CanAcquire(r)
       THEN /\ MarkUnavailable(account_idx[r], JwtError)
            /\ lock' = LockReleased(r)
            /\ RaiseInAttempt(r, JwtError)
       ELSE /\ pc' = [pc EXCEPT ![r] = "mark_lock"]
            /\ UNCHANGED <<accounts, account_states, lock, locals>>
    /\ UNCHANGED <<current_index, now, obs, others>>

\* ensure_session_for_account, lines 289-291 and 295: the cached session is
\* returned, or the creation starts with the lock held.
EnsureSession(r) ==
    /\ pc[r] = "ensure_session"
    /\ CanAcquire(r)
    /\ LET state == account_states[account_idx[r]] IN
       IF NeedsSession(state)
       THEN /\ lock' = r
            /\ pc' = [pc EXCEPT ![r] = "session_call"]
            /\ call_start' = [call_start EXCEPT ![r] = now]
            /\ state_ref' = [state_ref EXCEPT ![r] = state.id]
            /\ session' = session
       ELSE /\ lock' = lock
            /\ pc' = [pc EXCEPT ![r] = "send"]
            /\ call_start' = call_start
            /\ state_ref' = state_ref
            /\ session' = [session EXCEPT ![r] = state.session]
    /\ UNCHANGED <<registry, now, max_retries, attempt, account_idx, jwt,
                   last_error, response, failed, raised, obs, others>>

\* create_chat_session answers 200: lines 282-283 and 294-295.  The body
\* carries the session name, or none (data.get(...).get("name") is None).
SessionOk(r) ==
    /\ pc[r] = "session_call"
    /\ \E named \in BOOLEAN :
         LET name == IF named THEN FreshSession(r) ELSE NoSession IN
         /\ account_states' = IF Held(r)
                              THEN StoreSession(account_states, account_idx[r], name)
                              ELSE account_states
         /\ session' = [session EXCEPT ![r] = name]
    /\ lock' = LockReleased(r)
    /\ pc' = [pc EXCEPT ![r] = "send"]
    /\ call_start' = [call_start EXCEPT ![r] = 0]
    /\ state_ref' = [state_ref EXCEPT ![r] = NoState]
    /\ UNCHANGED <<accounts, current_index, now, max_retries, attempt,
                   account_idx, jwt, last_error, response, failed, raised, obs, others>>

\* A dispatcher that marks the account of any failed attempt (mutant).
FailureMarks(index, reason) == MarkUnavailable(index, reason)

\* Lines 828-830: an error raised by ensure_session_for_account after the
\* token step, or by stream_chat_with_images, meets no handler but the
\* except clause of the loop, which writes nothing to the registry.
FailureKeeps(index, reason) == UNCHANGED <<accounts, account_states>>

\* create_chat_session raises (lines 277-280, or the request itself): the
\* with block of line 289 releases the lock and the attempt fails.
SessionFail(r) ==
    /\ pc[r] = "session_call"
    /\ RaiseInAttempt(r, SessionError)
    /\ lock' = LockReleased(r)
    /\ FailureKeeps(account_idx[r], SessionError)
    /\ UNCHANGED <<current_index, now, obs, others>>

\* stream_chat_with_images, lines 516-538: the query parts are built; an
\* input image given by URL is downloaded first, without the token.
Send(r) ==
    /\ pc[r] = "send"
    /\ \E by_url \in BOOLEAN :
         /\ pc' = [pc EXCEPT ![r] = IF by_url THEN "image_download"
                                   ELSE "chat_call"]
         /\ call_start' = [call_start EXCEPT ![r] = now]
    /\ UNCHANGED <<registry, lock, now, max_retries, attempt, account_idx, jwt,
                   session, last_error, response, failed, raised, obs, state_ref, others>>

\* Lines 529-538: the download ends (appended, or logged and skipped); the
\* next input image is downloaded, or the request is posted with the bearer
\* token (lines 561-570).
ImageDone(r) ==
    /\ pc[r] = "image_download"
    /\ \E more \in BOOLEAN :
         /\ pc' = [pc EXCEPT ![r] = IF more THEN "image_download"
                                   ELSE "chat_call"]
         /\ call_start' = [call_start EXCEPT ![r] = now]
    /\ UNCHANGED <<registry, lock, now, max_retries, attempt, account_idx, jwt,
                   session, last_error, response, failed, raised, obs, state_ref, others>>

\* Lines 572-573: a status other than 200 (or the request itself) raises.
ChatFail(r) ==
    /\ pc[r] = "chat_call"
    /\ RaiseInAttempt(r, SendError)
    /\ FailureKeeps(account_idx[r], SendError)
    /\ UNCHANGED <<current_index, lock, now, obs, others>>

\* Lines 826-827 and 836-892: stream_chat_with_images has returned, the
\* loop is left and the completion is answered.  The token and the session
\* name of the attempt are dead from here on and are cleared.
Return(r) ==
    /\ pc' = [pc EXCEPT ![r] = "done"]
    /\ call_start' = [call_start EXCEPT ![r] = 0]
    /\ response' = [response EXCEPT ![r] = Completion(account_idx[r])]
    /\ jwt' = [jwt EXCEPT ![r] = NoJwt]
    /\ session' = [session EXCEPT ![r] = NoSession]

\* Lines 575-640: the body is read and walked; with queued file references
\* and a session name seen, the metadata lookup follows (line 642).
ChatOk(r) ==
    /\ pc[r] = "chat_call"
    /\ \E queued \in BOOLEAN :
         IF queued
         THEN /\ pc' = [pc EXCEPT ![r] = "meta_call"]
              /\ call_start' = [call_start EXCEPT ![r] = now]
              /\ UNCHANGED <<response, jwt, session>>
         ELSE Return(r)
    /\ UNCHANGED <<registry, lock, now, max_retries, attempt, account_idx,
                   last_error, failed, raised, obs, state_ref, others>>

\* Lines 642-656 and 668-669: the lookup answers (any status) and the first
\* queued file is downloaded, or it raises and every queued file is skipped.
MetaDone(r) ==
    /\ pc[r] = "meta_call"
    /\ \E lookup_raised \in BOOLEAN :
         IF lookup_raised
         THEN Return(r)
         ELSE /\ pc' = [pc EXCEPT ![r] = "download"]
              /\ call_start' = [call_start EXCEPT ![r] = now]
              /\ UNCHANGED <<response, jwt, session>>
    /\ UNCHANGED <<registry, lock, now, max_retries, attempt, account_idx,
                   last_error, failed, raised, obs, state_ref, others>>

\* Lines 655-667: one download ends (saved, or logged and skipped); the next
\* queued file is downloaded, or the result is returned (lines 674-675).
DownloadDone(r) ==
    /\ pc[r] = "download"
    /\ \E more \in BOOLEAN :
         IF more
         THEN /\ pc' = pc
              /\ call_start' = [call_start EXCEPT ![r] = now]
              /\ UNCHANGED <<response, jwt, session>>
         ELSE Return(r)
    /\ UNCHANGED <<registry, lock, now, max_retries, attempt, account_idx,
                   last_error, failed, raised, obs, state_ref, others>>

\* Time passes: a call in progress ends within its timeout, a thread waits
\* only for a call or for the lock, and computing takes no time.
Tick ==
    /\ now < MaxTime
    /\ \A r \in Requests :
         /\ pc[r] \in InCall => now + 1 - call_start[r] <= Timeout(pc[r])
         /\ pc[r] \in AtLock => ~CanAcquire(r)
         /\ pc[r] # "send"
    /\ now' = now + 1
    /\ UNCHANGED <<registry, lock, pc, locals, obs, others>>

Step(r) ==
    \/ Start(r)
    \/ Select(r)
    \/ EnsureJwt(r)
    \/ JwtOk(r)
    \/ JwtFail(r)
    \/ EnsureSession(r)
    \/ SessionOk(r)
    \/ SessionFail(r)
    \/ Send(r)
    \/ ImageDone(r)
    \/ ChatFail(r)
    \/ ChatOk(r)
    \/ MetaDone(r)
    \/ DownloadDone(r)

\* A step of a request whose selections are noted.
NotedStep(r) ==
    \/ Start(r)
    \/ NotedSelect(r)
    \/ EnsureJwt(r)
    \/ JwtOk(r)
    \/ JwtFail(r)
    \/ EnsureSession(r)
    \/ SessionOk(r)
    \/ SessionFail(r)
    \/ Send(r)
    \/ ImageDone(r)
    \/ ChatFail(r)
    \/ ChatOk(r)
    \/ MetaDone(r)
    \/ DownloadDone(r)

\* A configuration to import: the one the server exports (get_config).
ImportInputs == {accounts}

\* import_config (lines 1218-1239), which takes no lock: the account list
\* is replaced and every runtime state is built anew, nothing cached.
ImportConfig ==
    /\ \A i \in DOMAIN account_states : account_states[i].id < MaxImports
    /\ \E data \in ImportInputs :
         /\ accounts' = data
         /\ account_states' =
              [i \in DOMAIN data |->
                 [jwt |-> NoJwt, jwt_time |-> 0, session |-> NoSession,
                  available |-> data[i].available,
                  id |-> account_states[i].id + 1]]
    /\ UNCHANGED <<current_index, lock, now, pc, locals, obs, others>>

\* AccountManager.load_config (lines 59-74): the flags come from the file,
\* nothing is cached.
InitRegistry ==
    /\ \E flags \in [Accounts -> BOOLEAN] :
         /\ accounts = [i \in Accounts |->
                          [csesidx |-> i, team_id |-> i, available |-> flags[i],
                           unavailable_reason |-> NoReason,
                           unavailable_time |-> NoTime]]
         /\ account_states = [i \in Accounts |->
                          [jwt |-> NoJwt, jwt_time |-> 0, session |-> NoSession,
                           available |-> flags[i], id |-> 0]]
    /\ current_index = 0
    /\ lock = Free
    /\ now = 0

\* No account dict is held by a request.
NoAccount == [at |-> NoIndex, csesidx |-> NoIndex, team_id |-> NoIndex]

InitRequests ==
    /\ account = [r \in Requests |-> NoAccount]
    /\ edits = 0
    /\ pc = [r \in Requests |-> "idle"]
    /\ max_retries = [r \in Requests |-> 0]
    /\ attempt = [r \in Requests |-> 0]
    /\ account_idx = [r \in Requests |-> NoIndex]
    /\ jwt = [r \in Requests |-> NoJwt]
    /\ session = [r \in Requests |-> NoSession]
    /\ last_error = [r \in Requests |-> NoError]
    /\ call_start = [r \in Requests |-> 0]
    /\ state_ref = [r \in Requests |-> NoState]
    /\ response = [r \in Requests |-> NoResponse]
    /\ failed = [r \in Requests |-> 0]
    /\ raised = [r \in Requests |-> NoError]

\* No function is being called on its own.
NoCall == [fn |-> "none"]

\* ChatResponse(): no text, no images, no thoughts (lines 311-316).
NoResult == [text |-> <<>>, images |-> <<>>, thoughts |-> <<>>]

\* Nothing is read yet (line 576) and nothing collected (lines 581-585).
NoBody == [lines |-> <<>>, shape |-> "unread"]

InitAssembly ==
    /\ full_response = NoBody
    /\ cursor = 1
    /\ texts = <<>>
    /\ file_ids = <<>>
    /\ current_session = NoSession
    /\ result = NoResult

\* The cache directory is empty (line 35 creates it), no sweep is running.
NoFile == [mtime |-> NoTime, present |-> FALSE]

NoSweep == [pc |-> "idle", now |-> 0, listed |-> {}, todo |-> {}]

InitStore ==
    /\ cache_clock = 0
    /\ image_cache = [f \in FileNames |-> NoFile]
    /\ sweep = [r \in Requests |-> NoSweep]

InitOthers == call = NoCall /\ asm_pc = "idle" /\ InitAssembly /\ InitStore

Init == InitRegistry /\ InitRequests /\ obs = NoObservation /\ InitOthers

\* The registry as an earlier run of requests left it: an account has a
\* token and a session cached, or neither.
InitCached ==
    /\ \E flags \in [Accounts -> BOOLEAN], cached \in [Accounts -> BOOLEAN] :
         /\ accounts = [i \in Accounts |->
                          [csesidx |-> i, team_id |-> i, available |-> flags[i],
                           unavailable_reason |-> NoReason,
                           unavailable_time |-> NoTime]]
         /\ account_states = [i \in Accounts |->
                          [jwt |-> IF cached[i] THEN create_jwt(i, 0) ELSE NoJwt,
                           jwt_time |-> 0,
                           session |-> IF cached[i] THEN i + 1 ELSE NoSession,
                           available |-> flags[i], id |-> 0]]
    /\ current_index = 0
    /\ lock = Free
    /\ now = 0

MgrInit == InitCached /\ InitRequests /\ obs = NoObservation /\ InitOthers

\* Calls on the registry, one after the other.
MgrNext == CallGetNext \/ CallMark \/ CallToggle

MgrSpec == MgrInit /\ [][MgrNext]_vars

\* Concurrent requests, each on its own thread; every call answers within
\* one step of the clock.
Next == \E r \in Requests : Step(r)

Spec == Init /\ [][Next]_vars

\* Concurrent requests, the accounts given to each being noted.
NotedNext == \E r \in Requests : NotedStep(r)

NotedSpec == Init /\ [][NotedNext]_vars

\* Concurrent requests and imports of the configuration.
AdminNext == Next \/ ImportConfig

AdminSpec == Init /\ [][AdminNext]_vars

\* The threads are scheduled and every outbound call returns or raises.
FairSpec == Spec /\ \A r \in Requests : WF_vars(Step(r))

\* One request and the clock.
TimedNext == Step(1) \/ Tick

TimedSpec == Init /\ [][TimedNext]_vars

\* One request and the clock, over a registry that earlier requests left
\* with tokens cached at time 0.
RefreshSpec == MgrInit /\ [][TimedNext]_vars

\* ------------------------------------- stream_chat_with_images: assembly
\* A reply of the stream: its text (none, answer text or thought text), its
\* inline image payload (none, decodable or not) and its file reference.
Replies == [says : {"nothing", "answer", "thought"},
            image : {"none", "ok", "bad"},
            file : BOOLEAN]

\* An envelope without streamAssistResponse (line 590).
NoSar == [sar |-> FALSE, session |-> FALSE, generated |-> FALSE,
          replies |-> <<>>]

\* The text and the thought flag of reply j of envelope e (lines 611-612):
\* a text of one character, unlike that of every other reply.
TextOf(e, j, reply) == IF reply.says = "nothing" THEN <<>> ELSE << <<e, j>> >>
ThoughtOf(reply)    == reply.says = "thought"

\* The images the stream gives rise to, named by their source: position 0
\* of an envelope is its generatedImages block.
InlineImage(e, j) == [origin |-> "inline", src |-> <<e, j>>]
FileImage(fid)    == [origin |-> "file", src |-> fid]

\* A list that takes a new image in front (mutant).
PutFirst(images, img) == <<img>> \o images

\* result.images.append(img), lines 696, 719, 748 and 664.
Persisted(images, img) == Append(images, img)

\* A collector that takes every non-empty text (mutant).
KeepsAnyText(text, thought) == text # <<>>

\* Line 636: if text and not thought.
KeepsText(text, thought) == text # <<>> /\ ~thought

\* "".join(texts), line 674.
RECURSIVE Join(_)
Join(parts) == IF parts = <<>> THEN <<>> ELSE Head(parts) \o Join(Tail(parts))

\* Lines 606-637: the replies of envelope e from the j-th on; acc holds the
\* images, the queued file references and the texts collected so far.
RECURSIVE WalkReplies(_, _, _, _)
WalkReplies(replies, e, j, acc) ==
    IF j > Len(replies) THEN acc
    ELSE LET reply == replies[j]
             text  == TextOf(e, j, reply)
         IN  WalkReplies(replies, e, j + 1,
               [images   |-> IF reply.image = "ok"
                             THEN Persisted(acc.images, InlineImage(e, j))
                             ELSE acc.images,
                file_ids |-> IF reply.file
                             THEN Append(acc.file_ids, <<e, j>>)
                             ELSE acc.file_ids,
                texts    |-> IF KeepsText(text, ThoughtOf(reply))
                             THEN Append(acc.texts, text)
                             ELSE acc.texts])

RepliesIn(lines) ==
    IF lines = <<>> THEN 0
    ELSE Len(lines[Len(lines)].replies)
           + (IF Len(lines) = 1 THEN 0 ELSE Len(lines[1].replies))

\* Lines 576-579: one more line of the body is read: an envelope.
ReadLine ==
    /\ asm_pc = "receive"
    /\ Len(full_response.lines) < MaxEnvelopes
    /\ \E sar \in BOOLEAN :
         IF ~sar
         THEN full_response' = [full_response EXCEPT !.lines = Append(@, NoSar)]
         ELSE \E n \in 0 .. (MaxReplies - RepliesIn(full_response.lines)) :
                \E named \in BOOLEAN, generated \in BOOLEAN,
                   replies \in [1 .. n -> Replies] :
                  full_response' =
                    [full_response EXCEPT !.lines =
                       Append(@, [sar |-> TRUE, session |-> named,
                                  generated |-> generated, replies |-> replies])]
    /\ UNCHANGED <<core, call, store, asm_pc, cursor, texts, file_ids,
                   current_session, result>>

\* Lines 674-675: the texts are joined and the result returned.
Finish ==
    /\ result' = [result EXCEPT !.text = Join(texts)]
    /\ asm_pc' = "done"

\* A parser that takes any body for an array of envelopes (mutant).
ParsesAnything(shape) == TRUE

\* json.loads (line 588) returns for a body that is JSON.
Parses(shape) == shape # "invalid"

\* Lines 587-589 and 671-672: the body is parsed.  It is an array of
\* envelopes, or not JSON at all (JSONDecodeError, swallowed), or JSON of
\* another shape, whose walk raises (AttributeError, not caught).
Parse ==
    /\ asm_pc = "receive"
    /\ \E shape \in {"array", "invalid", "object"} :
         /\ full_response' = [full_response EXCEPT !.shape = shape]
         /\ IF ~Parses(shape)
            THEN Finish /\ UNCHANGED texts
            ELSE /\ asm_pc' = IF shape = "array" THEN "walk" ELSE "raised"
                 /\ UNCHANGED <<texts, result>>
    /\ UNCHANGED <<core, call, store, cursor, file_ids, current_session>>

\* Lines 589-637: one envelope of the array is walked.
WalkEnvelope ==
    /\ asm_pc = "walk"
    /\ cursor <= Len(full_response.lines)
    /\ LET data == full_response.lines[cursor]
           top  == IF data.generated
                   THEN Persisted(result.images, InlineImage(cursor, 0))
                   ELSE result.images
           acc  == WalkReplies(data.replies, cursor, 1,
                               [images |-> top, file_ids |-> file_ids,
                                texts |-> texts])
       IN  IF ~data.sar
           THEN UNCHANGED <<texts, file_ids, current_session, result>>
           ELSE /\ current_session' = IF data.session THEN cursor
                                      ELSE current_session
                /\ result' = [result EXCEPT !.images = acc.images]
                /\ file_ids' = acc.file_ids
                /\ texts' = acc.texts
    /\ cursor' = cursor + 1
    /\ UNCHANGED <<core, call, store, full_response, asm_pc>>

\* Lines 639-640: after the walk; with queued references and a session name
\* the metadata lookup follows, otherwise the result is returned.
EndWalk ==
    /\ asm_pc = "walk"
    /\ cursor > Len(full_response.lines)
    /\ IF file_ids # <<>> /\ current_session # NoSession
       THEN asm_pc' = "lookup" /\ UNCHANGED result
       ELSE Finish
    /\ UNCHANGED <<core, call, store, full_response, cursor, texts, file_ids,
                   current_session>>

\* Lines 641-643 and 668-669: the lookup returns (any status), or raises and
\* every queued reference is dropped.
Lookup ==
    /\ asm_pc = "lookup"
    /\ \E lookup_raised \in BOOLEAN :
         IF lookup_raised
         THEN Finish /\ UNCHANGED cursor
         ELSE asm_pc' = "download" /\ cursor' = 1 /\ UNCHANGED result
    /\ UNCHANGED <<core, call, store, full_response, texts, file_ids, current_session>>

\* A loop that a failed reference ends (mutant).
StopsAt(k) == Len(file_ids) + 1

\* Lines 666-667: the failure is logged and the for loop goes on.
SkipsTo(k) == k + 1

\* Lines 643-667: one queued reference is resolved: downloaded and saved,
\* or the download or the saving raises.
Resolve ==
    /\ asm_pc = "download"
    /\ \E resolved \in BOOLEAN :
         /\ cursor' = IF resolved THEN cursor + 1 ELSE SkipsTo(cursor)
         /\ LET images == IF resolved
                          THEN Persisted(result.images,
                                         FileImage(file_ids[cursor]))
                          ELSE result.images
            IN  IF cursor' > Len(file_ids)
                THEN /\ result' = [result EXCEPT !.images = images,
                                                 !.text = Join(texts)]
                     /\ asm_pc' = "done"
                ELSE /\ result' = [result EXCEPT !.images = images]
                     /\ asm_pc' = asm_pc
    /\ UNCHANGED <<core, call, store, full_response, texts, file_ids, current_session>>

\* The registry is loaded, no request has arrived.
InitCore ==
    /\ accounts = [i \in Accounts |->
                     [csesidx |-> i, team_id |-> i, available |-> TRUE,
                      unavailable_reason |-> NoReason,
                      unavailable_time |-> NoTime]]
    /\ account_states = [i \in Accounts |->
                     [jwt |-> NoJwt, jwt_time |-> 0, session |-> NoSession,
                      available |-> TRUE, id |-> 0]]
    /\ current_index = 0
    /\ lock = Free
    /\ now = 0
    /\ InitRequests
    /\ obs = NoObservation

\* The chat request was answered 200 and its body is about to be read.
AsmInit ==
    /\ InitCore /\ call = NoCall /\ asm_pc = "receive" /\ InitAssembly
    /\ InitStore

AsmNext == ReadLine \/ Parse \/ WalkEnvelope \/ EndWalk \/ Lookup \/ Resolve

AsmSpec == AsmInit /\ [][AsmNext]_vars

\* ------------------------------------------------------------ image cache
\* Seconds in steps of cache_clock.
CacheTicks(seconds) == seconds \div 1800

\* Line 325.
max_age_seconds == IMAGE_CACHE_HOURS * 3600

\* A sweep that also deletes a file of exactly the maximal age (mutant).
ExpiredAtMaxAge(file_age) == file_age >= CacheTicks(max_age_seconds)

\* Line 331: the file is older than the maximal age.
Expired(file_age) == file_age > CacheTicks(max_age_seconds)

\* Lines 338-363, save_image_to_cache: the bytes are written under a name,
\* which is a generated one or the one the upstream gave, so a file of that
\* name may exist already and is then overwritten.
SaveImage ==
    /\ \E f \in FileNames :
         image_cache' = [image_cache EXCEPT
                           ![f] = [mtime |-> cache_clock, present |-> TRUE]]
    /\ UNCHANGED <<core, call, assembly, cache_clock, sweep>>

\* Lines 791 and 319-327: a chat request starts with a sweep, which reads the
\* clock once and lists the directory.
StartSweep(r) ==
    /\ sweep[r].pc # "sweeping"
    /\ LET listed == {f \in FileNames : image_cache[f].present}
       IN  sweep' = [sweep EXCEPT ![r] = [pc |-> "sweeping",
                                          now |-> cache_clock,
                                          listed |-> listed, todo |-> listed]]
    /\ UNCHANGED <<core, call, assembly, cache_clock, image_cache>>

\* Lines 327-335: the next listed path.  One that is no file any more
\* (another sweep deleted it) is passed over; the others are deleted when
\* expired.
SweepFile(r) ==
    /\ sweep[r].pc = "sweeping"
    /\ \E filepath \in sweep[r].todo :
         LET file     == image_cache[filepath]
             file_age == sweep[r].now - file.mtime
         IN  /\ sweep' = [sweep EXCEPT ![r].todo = @ \ {filepath}]
             /\ image_cache' =
                  IF file.present /\ Expired(file_age)
                  THEN [image_cache EXCEPT ![filepath].present = FALSE]
                  ELSE image_cache
    /\ UNCHANGED <<core, call, assembly, cache_clock>>

\* The for loop of line 327 is over: cleanup_expired_images returns.
EndSweep(r) ==
    /\ sweep[r].pc = "sweeping"
    /\ sweep[r].todo = {}
    /\ sweep' = [sweep EXCEPT ![r].pc = "swept"]
    /\ UNCHANGED <<core, call, assembly, cache_clock, image_cache>>

\* Half an hour passes.
CacheTick ==
    /\ cache_clock < MaxCacheTime
    /\ cache_clock' = cache_clock + 1
    /\ UNCHANGED <<core, call, assembly, image_cache, sweep>>

CacheInit ==
    /\ InitCore /\ call = NoCall /\ asm_pc = "idle" /\ InitAssembly
    /\ InitStore

CacheNext ==
    \/ SaveImage
    \/ CacheTick
    \/ \E r \in Requests : StartSweep(r) \/ SweepFile(r) \/ EndSweep(r)

CacheSpec == CacheInit /\ [][CacheNext]_vars

\* A handler that goes on without the sweep (mutant).
SweepSkipped(r) == TRUE

\* Lines 791-793: cleanup_expired_images() is the first statement of
\* chat_completions; the body of the request is read when it has returned.
SweepReturned(r) == sweep[r].pc = "swept"

\* Lines 787-791: a chat request arrives and its handler starts the sweep.
ArriveAndSweep(r) ==
    /\ pc[r] = "idle"
    /\ sweep[r].pc = "idle"
    /\ StartSweep(r)

\* A chat request from its arrival on: the sweep, then the dispatch.
RequestStep(r) ==
    \/ ArriveAndSweep(r)
    \/ SweepFile(r)
    \/ EndSweep(r)
    \/ SweepReturned(r) /\ Step(r)

\* One chat request, and images saved by earlier ones.
RequestNext == RequestStep(1) \/ SaveImage

RequestSpec == Init /\ [][RequestNext]_vars

\* ------------------------------------------------- editing the account list
\* Here the list changes under a dispatch, so what a thread holds is kept
\* apart from what the registry holds: account[r] is the dict object the
\* selection returned (at is where it sits in the list now, NoIndex once it
\* is popped), and state_ref[r] is where the state dict bound at lines 243
\* and 290 sits now (NoState once it is dropped).

\* The credentials an operator types in for a new or an edited account.
NewCredential == NumAccounts

\* The session the upstream created: its name and the configId it was
\* created under (create_chat_session, lines 258-262), in one number.
SessionNames == (NumRequests + 1) * (NumAccounts + 2)
UpstreamSession(name, configId) == configId * SessionNames + name
SessionConfig(named) == named \div SessionNames

\* The dict at index i, as a thread that received it from the list holds it.
AccountAt(i) ==
    [at |-> i, csesidx |-> accounts[i].csesidx, team_id |-> accounts[i].team_id]

\* Line 819: account_idx, account = account_manager.get_next_account().
TakeAccount(r) ==
    /\ pc[r] = "select"
    /\ CanAcquire(r)
    /\ \E index \in DOMAIN accounts \cup {NoIndex} :
         /\ get_next_account(index)
         /\ IF index = NoIndex
            THEN RaiseInAttempt(r, NoAccountsErr) /\ UNCHANGED account
            ELSE /\ account_idx' = [account_idx EXCEPT ![r] = index]
                 /\ account' = [account EXCEPT ![r] = AccountAt(index)]
                 /\ pc' = [pc EXCEPT ![r] = "ensure_jwt"]
                 /\ UNCHANGED <<max_retries, attempt, jwt, session, last_error,
                                call_start, state_ref, response, failed, raised>>
    /\ UNCHANGED <<accounts, account_states, lock, now, obs, call, assembly,
                   store, edits>>

\* ensure_jwt_for_account, lines 242-245 and 253: the state is looked up by
\* account_idx (a KeyError when the list has shrunk below it); the cached
\* token is returned, or the exchange starts with the lock held.
EnterJwt(r) ==
    /\ pc[r] = "ensure_jwt"
    /\ CanAcquire(r)
    /\ IF account_idx[r] \notin DOMAIN account_states
       THEN RaiseInAttempt(r, KeyErr) /\ UNCHANGED lock
       ELSE LET state == account_states[account_idx[r]] IN
            /\ IF NeedsRefresh(state)
               THEN /\ lock' = r
                    /\ pc' = [pc EXCEPT ![r] = "jwt_call"]
                    /\ call_start' = [call_start EXCEPT ![r] = now]
                    /\ state_ref' = [state_ref EXCEPT ![r] = account_idx[r]]
                    /\ jwt' = jwt
               ELSE /\ lock' = lock
                    /\ pc' = [pc EXCEPT ![r] = "ensure_session"]
                    /\ call_start' = call_start
                    /\ state_ref' = state_ref
                    /\ jwt' = [jwt EXCEPT ![r] = state.jwt]
            /\ UNCHANGED <<max_retries, attempt, account_idx, session,
                           last_error, response, failed, raised>>
    /\ UNCHANGED <<registry, now, obs, others>>

\* Lines 247-248 and 253: the token is minted from the dict the thread was
\* given and written to the state dict it bound, wherever that sits.
JwtReturns(r) ==
    /\ pc[r] = "jwt_call"
    /\ LET token == create_jwt(account[r].csesidx, now) IN
       /\ account_states' = IF state_ref[r] \in DOMAIN account_states
                            THEN StoreJwt(account_states, state_ref[r], token)
                            ELSE account_states
       /\ jwt' = [jwt EXCEPT ![r] = token]
    /\ lock' = LockReleased(r)
    /\ pc' = [pc EXCEPT ![r] = "ensure_session"]
    /\ call_start' = [call_start EXCEPT ![r] = 0]
    /\ state_ref' = [state_ref EXCEPT ![r] = NoState]
    /\ UNCHANGED <<accounts, current_index, now, max_retries, attempt,
                   account_idx, session, last_error, response, failed, raised,
                   obs, others>>

\* Lines 249-252: the exchange raises and the handler calls
\* mark_account_unavailable with the lock of line 242 still held.
JwtRaises(r) ==
    /\ pc[r] = "jwt_call"
    /\ lock = r
    /\ pc' = [pc EXCEPT ![r] = "mark_lock"]
    /\ UNCHANGED <<registry, lock, now, locals, obs, others>>

\* ensure_session_for_account, lines 289-291 and 295.
EnterSession(r) ==
    /\ pc[r] = "ensure_session"
    /\ CanAcquire(r)
    /\ IF account_idx[r] \notin DOMAIN account_states
       THEN RaiseInAttempt(r, KeyErr) /\ UNCHANGED lock
       ELSE LET state == account_states[account_idx[r]] IN
            /\ IF NeedsSession(state)
               THEN /\ lock' = r
                    /\ pc' = [pc EXCEPT ![r] = "session_call"]
                    /\ call_start' = [call_start EXCEPT ![r] = now]
                    /\ state_ref' = [state_ref EXCEPT ![r] = account_idx[r]]
                    /\ session' = session
               ELSE /\ lock' = lock
                    /\ pc' = [pc EXCEPT ![r] = "send"]
                    /\ call_start' = call_start
                    /\ state_ref' = state_ref
                    /\ session' = [session EXCEPT ![r] = state.session]
            /\ UNCHANGED <<max_retries, attempt, account_idx, jwt, last_error,
                           response, failed, raised>>
    /\ UNCHANGED <<registry, now, obs, others>>

\* Lines 292-295: the session is created under account.get("team_id") and
\* written to the state dict the thread bound.
SessionReturns(r) ==
    /\ pc[r] = "session_call"
    /\ \E named \in BOOLEAN :
         LET name == IF named
                     THEN UpstreamSession(FreshSession(r), account[r].team_id)
                     ELSE NoSession IN
         /\ account_states' = IF state_ref[r] \in DOMAIN account_states
                              THEN StoreSession(account_states, state_ref[r], name)
                              ELSE account_states
         /\ session' = [session EXCEPT ![r] = name]
    /\ lock' = LockReleased(r)
    /\ pc' = [pc EXCEPT ![r] = "send"]
    /\ call_start' = [call_start EXCEPT ![r] = 0]
    /\ state_ref' = [state_ref EXCEPT ![r] = NoState]
    /\ UNCHANGED <<accounts, current_index, now, max_retries, attempt,
                   account_idx, jwt, last_error, response, failed, raised,
                   obs, others>>

\* The body of an account request: the keys it carries (NoIndex: absent).
AccountInputs ==
    { [csesidx |-> c, team_id |-> t] :
        c \in {NoIndex, NewCredential}, t \in {NoIndex, NewCredential} }
      \ {[csesidx |-> NoIndex, team_id |-> NoIndex]}

\* add_account (lines 1027-1051), which takes no lock: the new dict is
\* appended, available, with a state that caches nothing.
AddAccount ==
    /\ edits < MaxEdits
    /\ NumAcc <= NumAccounts
    /\ \E data \in AccountInputs :
         LET idx == NumAcc IN
         /\ accounts' =
              [i \in 0 .. idx |->
                 IF i < idx THEN accounts[i]
                 ELSE [csesidx |-> data.csesidx, team_id |-> data.team_id,
                       available |-> TRUE, unavailable_reason |-> NoReason,
                       unavailable_time |-> NoTime]]
         /\ account_states' =
              [i \in DOMAIN account_states \cup {idx} |->
                 IF i = idx
                 THEN [jwt |-> NoJwt, jwt_time |-> 0, session |-> NoSession,
                       available |-> TRUE, id |-> 0]
                 ELSE account_states[i]]
    /\ edits' = edits + 1
    /\ UNCHANGED <<current_index, lock, now, pc, locals, obs, call, assembly,
                   store, account>>

\* update_account (lines 1054-1077), which takes no lock: the keys of the
\* body are written into the dict of the list, which a dispatch that was
\* given it sees changed; the state of the account is not touched.
UpdateAccount ==
    /\ edits < MaxEdits
    /\ \E account_id \in DOMAIN accounts, data \in AccountInputs :
         LET acc == accounts[account_id]
             csesidx == IF data.csesidx = NoIndex THEN acc.csesidx
                        ELSE data.csesidx
             team_id == IF data.team_id = NoIndex THEN acc.team_id
                        ELSE data.team_id
         IN
         /\ accounts' = [accounts EXCEPT ![account_id].csesidx = csesidx,
                                         ![account_id].team_id = team_id]
         /\ account' = [r \in Requests |->
                          IF account[r].at = account_id
                          THEN [account[r] EXCEPT !.csesidx = csesidx,
                                                  !.team_id = team_id]
                          ELSE account[r]]
    /\ edits' = edits + 1
    /\ UNCHANGED <<account_states, current_index, lock, now, pc, locals, obs,
                   call, assembly, store>>

\* Where what sat at index i sits after list.pop(account_id).
Shifted(i, account_id, gone) ==
    IF i = gone \/ i = account_id THEN gone
    ELSE IF i > account_id THEN i - 1 ELSE i

\* delete_account (lines 1080-1098), which takes no lock: the dict is popped
\* and the states above it move down by one (every index of the list has a
\* state here, so the {} default of .get is not met).  The indexes that
\* running dispatches hold are not touched.
DeleteAccount ==
    /\ edits < MaxEdits
    /\ \E account_id \in DOMAIN accounts :
         /\ accounts' = [i \in 0 .. NumAcc - 2 |->
                           IF i < account_id THEN accounts[i]
                           ELSE accounts[i + 1]]
         /\ account_states' = [i \in 0 .. NumAcc - 2 |->
                           IF i < account_id THEN account_states[i]
                           ELSE account_states[i + 1]]
         /\ account' = [r \in Requests |->
                          [account[r] EXCEPT
                             !.at = Shifted(@, account_id, NoIndex)]]
         /\ state_ref' = [r \in Requests |->
                            Shifted(state_ref[r], account_id, NoState)]
    /\ edits' = edits + 1
    /\ UNCHANGED <<current_index, lock, now, pc, max_retries, attempt,
                   account_idx, jwt, session, last_error, call_start,
                   response, failed, raised, obs, call, assembly, store>>

\* A dispatch over a list that is being edited.
EditedStep(r) ==
    \/ Start(r)
    \/ TakeAccount(r)
    \/ EnterJwt(r)
    \/ JwtReturns(r)
    \/ JwtRaises(r)
    \/ EnterSession(r)
    \/ SessionReturns(r)
    \/ SessionFail(r)
    \/ Send(r)
    \/ ImageDone(r)
    \/ ChatFail(r)
    \/ ChatOk(r)
    \/ MetaDone(r)
    \/ DownloadDone(r)

\* One request, and the account operations of the management page.
EditNext == EditedStep(1) \/ AddAccount \/ UpdateAccount \/ DeleteAccount

EditSpec == Init /\ [][EditNext]_vars

\* ------------------------------------------------------ persisting images
\* A file name is where it leads from the cache directory (dir), its stem
\* and its extension ("" when it ends in none of the four known ones).
NoName == [dir |-> "", stem |-> 0, ext |-> ""]

\* The names the upstream may give: att.get("name"), file_info.get("name")
\* and meta.get("name") are used as they come.
UpstreamNames ==
    [dir : {"", "../"}, stem : 1 .. NumStems, ext : {"", ".png", ".jpg"}]

MimeTypes == {"image/png", "image/jpeg"}

\* Lines 343-349: ext_map.get(mime_type, ".png").
ExtOf(mime_type) == IF mime_type = "image/jpeg" THEN ".jpg" ELSE ".png"

\* Lines 355-356: gemini_<timestamp>_<uuid4().hex[:8]><ext>, the k-th
\* uuid being unlike every other and unlike every upstream name.
Generated(k, ext) == [dir |-> "", stem |-> NumStems + k, ext |-> ext]

\* Lines 351-356: the name the file is written under.
FileNameFor(filename, mime_type, k) ==
    IF filename # NoName
    THEN IF filename.ext = ""
         THEN [filename EXCEPT !.ext = ExtOf(mime_type)]
         ELSE filename
    ELSE Generated(k, ExtOf(mime_type))

\* Lines 358-360: open(filepath, "wb") and write, replacing a file that is
\* already there.
Written(files, path, data) ==
    {f \in files : f.path # path} \cup {[path |-> path, data |-> data]}

\* The cache directory and the images persisted so far, nothing running.
SaveCall ==
    [fn |-> "save_image_to_cache", pc |-> "idle", files |-> {},
     images |-> <<>>, n |-> 0, origin |-> "none", filename |-> NoName]

\* parse_generated_image and parse_image_from_content (lines 689 and 712)
\* call save_image_to_cache without a name; parse_attachment (lines 741-742)
\* and the file-id loop (lines 649-657) pass the upstream's name, if any.
\* The bytes of the k-th image are k, unlike those of every other image.
SaveToCache ==
    /\ call.fn = "save_image_to_cache" /\ call.pc = "idle"
    /\ call.n < MaxImages
    /\ \E origin \in {"inline", "attachment", "file"},
          name \in UpstreamNames \cup {NoName}, mime_type \in MimeTypes :
         /\ origin = "inline" => name = NoName
         /\ LET k == call.n + 1
                filename == FileNameFor(name, mime_type, k)
            IN  call' = [call EXCEPT
                           !.pc = "saved", !.n = k, !.origin = origin,
                           !.filename = filename,
                           !.files = Written(@, filename, k)]
    /\ UNCHANGED <<core, assembly, store>>

\* Lines 690-696, 713-719, 742-748 and 657-664: the ChatImage is built with
\* the returned file name and appended to result.images.
AppendImage ==
    /\ call.fn = "save_image_to_cache" /\ call.pc = "saved"
    /\ call' = [call EXCEPT
                  !.pc = "idle",
                  !.images = Persisted(@, [origin |-> call.origin,
                                           data |-> call.n,
                                           file_name |-> call.filename])]
    /\ UNCHANGED <<core, assembly, store>>

SaveInit ==
    /\ InitCore /\ asm_pc = "idle" /\ InitAssembly /\ InitStore
    /\ call = SaveCall

SaveNext == SaveToCache \/ AppendImage

SaveSpec == SaveInit /\ [][SaveNext]_vars

\* ---------------------------------------------------------- image serving
\* The characters of a requested name: a dot, the two separators and any
\* other character.
NameChars == {".", "/", "\\", "a"}

\* Line 942: the route takes any non-empty path for filename.
FileNamesAsked == UNION {[1..n -> NameChars] : n \in 1..MaxNameLen}

\* Python's  sub in s  for strings: sub occurs in s from position k on.
RECURSIVE OccursFrom(_, _, _)
OccursFrom(sub, s, k) ==
    IF k + Len(sub) - 1 > Len(s) THEN FALSE
    ELSE IF SubSeq(s, k, k + Len(sub) - 1) = sub THEN TRUE
    ELSE OccursFrom(sub, s, k + 1)

\* str.startswith.
StartsWith(s, prefix) ==
    Len(s) >= Len(prefix) /\ SubSeq(s, 1, Len(prefix)) = prefix

\* A check that looks for a leading separator only (mutant).
RefusesLeadingOnly(filename) == StartsWith(filename, <<"/">>)

\* Line 946: the safety check.
Refuses(filename) ==
    OccursFrom(<<".", ".">>, filename, 1) \/ StartsWith(filename, <<"/">>)

\* A request for /image/<filename> arrives; stored tells whether a file of
\* that name is under the cache directory.
ServeCall(filename, stored) ==
    [fn |-> "serve_image", filename |-> filename, stored |-> stored,
     pc |-> "check", touched |-> FALSE, status |-> 0]

\* Lines 946-947: abort(404) for a refused name.
CheckName ==
    /\ call.fn = "serve_image" /\ call.pc = "check"
    /\ call' = IF Refuses(call.filename)
               THEN [call EXCEPT !.pc = "done", !.status = 404]
               ELSE [call EXCEPT !.pc = "exists"]
    /\ UNCHANGED <<core, assembly, store>>

\* Lines 949-951: the existence test, the first access to storage.
TestExists ==
    /\ call.fn = "serve_image" /\ call.pc = "exists"
    /\ call' = IF call.stored
               THEN [call EXCEPT !.pc = "send", !.touched = TRUE]
               ELSE [call EXCEPT !.pc = "done", !.touched = TRUE,
                                 !.status = 404]
    /\ UNCHANGED <<core, assembly, store>>

\* Lines 953-964: the file is read and sent.
SendFile ==
    /\ call.fn = "serve_image" /\ call.pc = "send"
    /\ call' = [call EXCEPT !.pc = "done", !.status = 200]
    /\ UNCHANGED <<core, assembly, store>>

ServeInit ==
    /\ InitCore /\ asm_pc = "idle" /\ InitAssembly /\ InitStore
    /\ \E filename \in FileNamesAsked, stored \in BOOLEAN :
         call = ServeCall(filename, stored)

ServeNext == CheckName \/ TestExists \/ SendFile

ServeSpec == ServeInit /\ [][ServeNext]_vars

\* ------------------------------------------------ the token-material exchange
\* The statuses an exchange may answer with.
Statuses == {200, 401, 403, 500}

\* The bodies an exchange may answer with: with or without the prefix )]}'
\* and, that prefix aside, a JSON object with keyId and xsrfToken, one that
\* lacks either, or no JSON.
Bodies == [prefixed : BOOLEAN,
           text : {"material", "no_keyId", "no_xsrfToken", "no_json"}]

NoResp == [status |-> 0, body |-> [prefixed |-> FALSE, text |-> "no_json"]]

\* Lines 211-213: the prefix, if any, is taken off.
Stripped(body) == body.text

\* ensure_jwt_for_account finds no usable token for the account (line 244)
\* and calls get_jwt_for_account (line 247).
ExchangeCall(index, secure_c_ses, csesidx) ==
    [fn |-> "get_jwt_for_account", pc |-> "check", account_idx |-> index,
     secure_c_ses |-> secure_c_ses, csesidx |-> csesidx,
     resp |-> NoResp, token |-> NoJwt, error |-> NoError]

\* Lines 192-197: an account that lacks a secret raises ValueError before
\* any request.
CheckSecrets ==
    /\ call.fn = "get_jwt_for_account" /\ call.pc = "check"
    /\ call' = IF ~call.secure_c_ses \/ ~call.csesidx
               THEN [call EXCEPT !.pc = "raised", !.error = "ValueError"]
               ELSE [call EXCEPT !.pc = "request"]
    /\ UNCHANGED <<core, assembly, store>>

\* Line 208: the exchange answers with some status and body, or the request
\* raises.
Exchange ==
    /\ call.fn = "get_jwt_for_account" /\ call.pc = "request"
    /\ \/ \E status \in Statuses, body \in Bodies :
            call' = [call EXCEPT !.pc = "parse",
                                 !.resp = [status |-> status, body |-> body]]
       \/ call' = [call EXCEPT !.pc = "raised", !.error = "RequestException"]
    /\ UNCHANGED <<core, assembly, store>>

\* Lines 210-220: the text of the response is parsed and the key material
\* read from it.
ParseBody ==
    /\ call.fn = "get_jwt_for_account" /\ call.pc = "parse"
    /\ LET text == Stripped(call.resp.body) IN
       call' = IF text = "no_json"
               THEN [call EXCEPT !.pc = "raised", !.error = "JSONDecodeError"]
               ELSE IF text \in {"no_keyId", "no_xsrfToken"}
               THEN [call EXCEPT !.pc = "raised", !.error = "KeyError"]
               ELSE [call EXCEPT !.pc = "mint"]
    /\ UNCHANGED <<core, assembly, store>>

\* Lines 222 and 247-248: the token is minted and returned, and
\* ensure_jwt_for_account caches it.
MintAndCache ==
    /\ call.fn = "get_jwt_for_account" /\ call.pc = "mint"
    /\ LET token == create_jwt(accounts[call.account_idx].csesidx, now) IN
       /\ call' = [call EXCEPT !.pc = "returned", !.token = token]
       /\ account_states' = StoreJwt(account_states, call.account_idx, token)
    /\ UNCHANGED <<accounts, current_index, lock, now, pc, locals, obs,
                   assembly, store, editing>>

ExchangeInit ==
    /\ InitCore /\ asm_pc = "idle" /\ InitAssembly /\ InitStore
    /\ \E index \in Accounts, secure_c_ses \in BOOLEAN, csesidx \in BOOLEAN :
         call = ExchangeCall(index, secure_c_ses, csesidx)

ExchangeNext == CheckSecrets \/ Exchange \/ ParseBody \/ MintAndCache

ExchangeSpec == ExchangeInit /\ [][ExchangeNext]_vars

\* ------------------------------------------- chat_completions: the prompt
\* A message of the request: its role, and whether its content has text and
\* an image part.
Messages == [role : {"user", "assistant"}, says : BOOLEAN, image : BOOLEAN]

MessageLists == UNION {[1..n -> Messages] : n \in 0..MaxMessages}

\* extract_images_from_openai_content (lines 366-414) for message k: its
\* text, a text unlike that of every other message, and its images, named
\* by the message.
TextIn(k, msg) == IF msg.says THEN <<k>> ELSE <<>>

ImagesIn(k, msg) == IF msg.image THEN <<k>> ELSE <<>>

\* Line 794: the request arrives with its messages.
PromptCall(messages) ==
    [fn |-> "chat_completions", pc |-> "extract", messages |-> messages,
     k |-> 1, user_message |-> <<>>, input_images |-> <<>>, status |-> 0]

\* Lines 801-806: one iteration of the loop over the messages.
ReadMessage ==
    /\ call.fn = "chat_completions" /\ call.pc = "extract"
    /\ call.k <= Len(call.messages)
    /\ LET msg    == call.messages[call.k]
           text   == TextIn(call.k, msg)
           images == ImagesIn(call.k, msg)
       IN  call' = IF msg.role = "user"
                   THEN [call EXCEPT
                           !.k = @ + 1,
                           !.user_message = IF text # <<>> THEN text ELSE @,
                           !.input_images = @ \o images]
                   ELSE [call EXCEPT !.k = @ + 1]
    /\ UNCHANGED <<core, assembly, store>>

\* Lines 808-809: nothing to forward is answered 400.
RejectEmpty ==
    /\ call.fn = "chat_completions" /\ call.pc = "extract"
    /\ call.k > Len(call.messages)
    /\ call.user_message = <<>> /\ call.input_images = <<>>
    /\ call' = [call EXCEPT !.pc = "done", !.status = 400]
    /\ UNCHANGED <<core, assembly, store>>

\* Lines 811-825: user_message and input_images go to
\* stream_chat_with_images.
Forward ==
    /\ call.fn = "chat_completions" /\ call.pc = "extract"
    /\ call.k > Len(call.messages)
    /\ ~(call.user_message = <<>> /\ call.input_images = <<>>)
    /\ call' = [call EXCEPT !.pc = "forwarded"]
    /\ UNCHANGED <<core, assembly, store>>

PromptInit ==
    /\ InitCore /\ asm_pc = "idle" /\ InitAssembly /\ InitStore
    /\ \E messages \in MessageLists : call = PromptCall(messages)

PromptNext == ReadMessage \/ RejectEmpty \/ Forward

PromptSpec == PromptInit /\ [][PromptNext]_vars

\* --------------------------------- get_next_account, statement by statement
\* Where a thread is inside get_next_account.
InSelection == {"list", "normalise", "pick", "advance", "return"}

\* Line 100: the lock is taken.
AcquireForSelection(r) ==
    /\ pc[r] = "idle"
    /\ CanAcquire(r)
    /\ lock' = r
    /\ pc' = [pc EXCEPT ![r] = "list"]
    /\ UNCHANGED <<registry, now, locals, obs, others>>

\* Lines 101-103: the available accounts are listed; with none the call
\* raises, which leaves the with block.
ListAvailable(r) ==
    /\ pc[r] = "list"
    /\ IF get_available_accounts = <<>>
       THEN lock' = LockReleased(r) /\ pc' = [pc EXCEPT ![r] = "idle"]
       ELSE lock' = lock /\ pc' = [pc EXCEPT ![r] = "normalise"]
    /\ UNCHANGED <<registry, now, locals, obs, others>>

\* Line 106: the cursor is brought into the list.
NormaliseCursor(r) ==
    /\ pc[r] = "normalise"
    /\ current_index' = CursorNormalised(get_available_accounts)
    /\ pc' = [pc EXCEPT ![r] = "pick"]
    /\ UNCHANGED <<accounts, account_states, lock, now, locals, obs, others>>

\* Line 107: the account under the cursor is taken.
PickAccount(r) ==
    /\ pc[r] = "pick"
    /\ account_idx' = [account_idx EXCEPT
                         ![r] = NextSelected(get_available_accounts)]
    /\ pc' = [pc EXCEPT ![r] = "advance"]
    /\ UNCHANGED <<registry, lock, now, max_retries, attempt, jwt, session,
                   last_error, call_start, state_ref, response, failed,
                   raised, obs, others>>

\* Line 108: the cursor moves on.
AdvanceCursor(r) ==
    /\ pc[r] = "advance"
    /\ current_index' = CursorAdvanced(get_available_accounts)
    /\ pc' = [pc EXCEPT ![r] = "return"]
    /\ UNCHANGED <<accounts, account_states, lock, now, locals, obs, others>>

\* Line 109: the account is returned and the with block left; the observer
\* notes the selection.
ReturnAccount(r) ==
    /\ pc[r] = "return"
    /\ lock' = LockReleased(r)
    /\ pc' = [pc EXCEPT ![r] = "idle"]
    /\ obs' = [obs EXCEPT !.op = "get_next_account",
                          !.ret = account_idx[r],
                          !.log = Latest(Append(@, account_idx[r]))]
    /\ UNCHANGED <<registry, now, locals, others>>

SelectionStep(r) ==
    \/ AcquireForSelection(r)
    \/ ListAvailable(r)
    \/ NormaliseCursor(r)
    \/ PickAccount(r)
    \/ AdvanceCursor(r)
    \/ ReturnAccount(r)

\* Threads that call get_next_account again and again, concurrently.
SelectionNext == \E r \in Requests : SelectionStep(r)

SelectionSpec == Init /\ [][SelectionNext]_vars

\* ------------------------------------------------------------ properties
Range(seq) == {seq[k] : k \in DOMAIN seq}

RECURSIVE Ascending(_)
Ascending(S) ==
    IF S = {} THEN <<>>
    ELSE LET least == CHOOSE x \in S : \A y \in S : x <= y
         IN <<least>> \o Ascending(S \ {least})

PositionIn(seq, x) == CHOOSE k \in DOMAIN seq : seq[k] = x

CyclicNext(seq, x) == seq[(PositionIn(seq, x) % Len(seq)) + 1]

UpstreamPhase == {"send", "image_download", "chat_call", "meta_call",
                  "download"}
BearerCalls   == {"session_call", "chat_call", "meta_call", "download"}

\* C1: a dispatch makes at most N attempts, N being the number of configured
\* accounts when it started; once an attempt has succeeded the number of
\* attempts is the number of failed ones plus one, the answer is that
\* attempt's, and the request selects and calls no more.
C1_FailoverBounded ==
    /\ [](\A r \in Requests :
            /\ attempt[r] <= max_retries[r]
            /\ max_retries[r] \in {0, NumAccounts}
            /\ pc[r] \in {"meta_call", "download", "done"}
                 => attempt[r] = failed[r] + 1
            /\ pc[r] = "done"
                 => /\ account_idx[r] \in Accounts
                    /\ response[r] = Completion(account_idx[r]))
    /\ [][\A r \in Requests :
            pc[r] = "done"
              => /\ pc'[r] = "done"
                 /\ attempt'[r] = attempt[r]
                 /\ response'[r] = response[r]]_vars

\* Two attempts raised and the third succeeded.
C1_Witness ==
    \E r \in Requests :
        pc[r] = "done" /\ failed[r] = 2 /\ attempt[r] = 3
        /\ response[r].status = 200

\* C2 (as claimed): once the token exchange of a request has failed for an
\* account, the account becomes unavailable in its record and in its runtime
\* state, with the error as the reason and a timestamp, and the error
\* reaches the dispatcher.
C2_TokenFailureMarks ==
    \A r \in Requests : \A i \in Accounts :
        (pc[r] = "mark_lock" /\ account_idx[r] = i)
          ~> (/\ ~accounts[i].available
              /\ ~account_states[i].available
              /\ accounts[i].unavailable_reason = JwtError
              /\ accounts[i].unavailable_time # NoTime
              /\ raised[r] = JwtError)

\* C3: while the set of available accounts does not change, the accounts
\* selected are available ones, each selection is the cyclic successor (by
\* ascending index) of the one before, any k consecutive selections are
\* the k available accounts, and the order repeats with period k.
C3_RoundRobin ==
    LET available == Ascending(AvailableSet(account_states))
        k         == Len(available)
        log       == obs.log
    IN  \A j \in DOMAIN log :
          /\ log[j] \in Range(available)
          /\ j < Len(log) => log[j + 1] = CyclicNext(available, log[j])
          /\ j + k - 1 <= Len(log)
               => {log[m] : m \in j .. (j + k - 1)} = Range(available)
          /\ j + k <= Len(log) => log[j + k] = log[j]

\* Two full cycles over two available accounts, the third being unavailable,
\* from a cursor that was not at the start of the list.
C3_Witness ==
    /\ Cardinality(AvailableSet(account_states)) = 2
    /\ Len(obs.log) >= 4
    /\ obs.log[1] # Ascending(AvailableSet(account_states))[1]

\* C4: after mark_account_unavailable(i) on an available account, i is not
\* among the available accounts, the count query gives the same total and
\* one available account fewer, and no later selection returns i; with an
\* index outside the list the registry is as before.
C4_MarkTakesEffect ==
    /\ obs.op = "mark_account_unavailable"
         => IF obs.arg \in DOMAIN obs.before[1]
            THEN obs.before[2][obs.arg].available
                   => /\ obs.arg \notin Range(get_available_accounts)
                      /\ get_account_count
                           = <<Cardinality(DOMAIN obs.before[1]),
                               Cardinality(AvailableSet(obs.before[2])) - 1>>
            ELSE registry = obs.before
    /\ obs.op = "get_next_account" => obs.ret \notin obs.marked

\* An account was marked and a later selection returned another one.
C4_Witness ==
    /\ obs.op = "get_next_account"
    /\ obs.ret # NoIndex
    /\ \E i \in obs.marked : accounts[i].unavailable_reason = JwtError

\* C5: toggle_account on an unavailable account puts it among the available
\* accounts, raises the available count by one, leaves no reason and no
\* timestamp in the record and leaves the cached token and session alone.
C5_ReEnable ==
    (obs.op = "toggle_account" /\ ~obs.before[2][obs.arg].available)
      => LET i == obs.arg
             old == obs.before[2][i]
         IN  /\ i \in Range(get_available_accounts)
             /\ accounts[i].available /\ account_states[i].available
             /\ get_account_count
                  = <<Cardinality(DOMAIN obs.before[1]),
                      Cardinality(AvailableSet(obs.before[2])) + 1>>
             /\ accounts[i].unavailable_reason = NoReason
             /\ accounts[i].unavailable_time = NoTime
             /\ account_states[i].jwt = old.jwt
             /\ account_states[i].jwt_time = old.jwt_time
             /\ account_states[i].session = old.session

\* A marked account with a cached token and session was re-enabled.
C5_Witness ==
    /\ obs.op = "toggle_account"
    /\ ~obs.before[2][obs.arg].available
    /\ obs.before[1][obs.arg].unavailable_reason = JwtError
    /\ account_states[obs.arg].jwt # NoJwt
    /\ account_states[obs.arg].session # NoSession

\* C6: when every one of the N >= 1 attempts has raised, the request is
\* answered 500 with the error of the last attempt and no chat result; and
\* a 500 is answered only then.
C6_AllFailedCarriesLast ==
    \A r \in Requests :
        /\ (max_retries[r] >= 1 /\ failed[r] = max_retries[r])
             => /\ pc[r] = "failed"
                /\ response[r] = AllFailed(raised[r])
        /\ response[r].status = 500
             => failed[r] = max_retries[r] /\ response[r].account = NoIndex

\* Three attempts raised, the last one in the send.
C6_Witness ==
    \E r \in Requests :
        /\ pc[r] = "failed" /\ failed[r] = 3
        /\ response[r].status = 500 /\ response[r].error = SendError

\* C7 (as claimed): at the start of every outbound call that carries the
\* bearer token, the token was issued at most 300 seconds before.
C7_TokenAgeAtMost300 ==
    \A r \in Requests :
        pc[r] \in BearerCalls
          => call_start[r] - jwt[r].iat <= Ticks(JWT_LIFETIME)

C9_Serialized ==
    Cardinality({r \in Requests : pc[r] \in {"jwt_call", "session_call"}}) <= 1

\* A request waits for the lock while another, holding another account, is
\* in its token exchange.
C9_Witness ==
    /\ pc[1] = "jwt_call" /\ pc[2] = "ensure_jwt"
    /\ account_idx[1] # account_idx[2]
    /\ NeedsRefresh(account_states[account_idx[2]])

\* C10: a request that is sending, reading the reply or downloading files
\* does not hold the registry lock.
C10_LockFreeWhileStreaming ==
    \A r \in Requests : pc[r] \in UpstreamPhase => lock # r

\* Two requests stream at once and the lock is free for a selection.
C10_Witness ==
    pc[1] = "chat_call" /\ pc[2] = "download" /\ lock = Free

\* The sources of a body in stream order: position 0 of an envelope is its
\* generatedImages block, position j > 0 its j-th reply.
RECURSIVE StreamOrder(_, _)
StreamOrder(lines, e) ==
    IF e > Len(lines) THEN <<>>
    ELSE [k \in 1 .. (Len(lines[e].replies) + 1) |-> <<e, k - 1>>]
           \o StreamOrder(lines, e + 1)

ReplyAt(lines, pos) == lines[pos[1]].replies[pos[2]]

\* pos comes before other in the stream.
Earlier(pos, other) ==
    pos[1] < other[1] \/ (pos[1] = other[1] /\ pos[2] < other[2])

\* C11: when the body is an array of envelopes, the text of the result
\* returned is the texts of the replies that have a text and are not
\* flagged as thought, in stream order, and nothing else.
C11_AnswerText ==
    (asm_pc = "done" /\ full_response.shape = "array")
      => LET lines == full_response.lines
             IsAnswer(pos) == pos[2] > 0 /\ ReplyAt(lines, pos).says = "answer"
         IN  result.text = SelectSeq(StreamOrder(lines, 1), IsAnswer)

\* Answer texts of two envelopes, in that order, the result returned.
C11_Witness ==
    /\ asm_pc = "done"
    /\ result.text = << <<1, 1>>, <<2, 1>> >>

\* The sources of the images of a list, in the order of the list.
SourcesOf(images) == [k \in DOMAIN images |-> images[k].src]

OfOrigin(images, origin) ==
    LET Is(img) == img.origin = origin IN SelectSeq(images, Is)

\* C12 (as claimed): in the image list an image whose source comes earlier
\* in the stream precedes every image whose source comes later.
C12_StreamOrder ==
    \A a \in DOMAIN result.images : \A b \in DOMAIN result.images :
        Earlier(result.images[a].src, result.images[b].src) => a < b

\* C12: the image list is the decoded inline images, in the stream order of
\* their sources, followed by the resolved file references, in the stream
\* order of the references, each at most once; in the result returned no
\* decoded inline image is missing.
C12_InlineThenFiles ==
    full_response.shape = "array"
      => LET lines  == full_response.lines
             images == result.images
             inline == OfOrigin(images, "inline")
             files  == OfOrigin(images, "file")
             Decoded(pos) ==
                 IF pos[2] = 0 THEN lines[pos[1]].generated
                 ELSE ReplyAt(lines, pos).image = "ok"
         IN  /\ images = inline \o files
             /\ \A a \in DOMAIN inline : \A b \in DOMAIN inline :
                  a < b => Earlier(inline[a].src, inline[b].src)
             /\ \A a \in DOMAIN files : \A b \in DOMAIN files :
                  a < b => Earlier(files[a].src, files[b].src)
             /\ \A a \in DOMAIN files :
                  files[a].src[2] > 0 /\ ReplyAt(lines, files[a].src).file
             /\ asm_pc = "done"
                  => SourcesOf(inline) = SelectSeq(StreamOrder(lines, 1), Decoded)

\* The result returned lists the inline image of the second envelope before
\* the file of the first envelope's reference.
C12_Witness ==
    /\ asm_pc = "done"
    /\ result.images = <<InlineImage(2, 1), FileImage(<<1, 1>>)>>

\* C13: whatever becomes of a queued file reference (resolved, or its
\* download or saving raises), the texts and the images captured before are
\* kept, the next queued reference is attempted, and after the last one the
\* result is returned with the joined text; nothing is raised.
C13_FailureSkipped ==
    [][asm_pc = "download"
         => /\ cursor <= Len(file_ids)
            /\ texts' = texts /\ file_ids' = file_ids
            /\ result'.images \in
                 {result.images,
                  Append(result.images, FileImage(file_ids[cursor]))}
            /\ cursor' = cursor + 1
            /\ IF cursor < Len(file_ids)
               THEN asm_pc' = "download" /\ result'.text = result.text
               ELSE asm_pc' = "done" /\ result'.text = Join(texts)]_vars

\* The first of two queued references failed and the second was resolved;
\* the inline image and the text captured before are in the result.
C13_Witness ==
    /\ asm_pc = "done"
    /\ file_ids = << <<1, 1>>, <<2, 1>> >>
    /\ result.images = <<InlineImage(1, 0), FileImage(<<2, 1>>)>>
    /\ result.text # <<>>

\* C14: a reply body that is not valid JSON raises nothing out of the
\* assembler: it returns, and its result holds what had been captured when
\* the parse failed, which is the texts and images gathered so far (the
\* parse precedes the walk, so none have been).
C14_InvalidBodyReturns ==
    full_response.shape = "invalid"
      => /\ asm_pc = "done"
         /\ result.text = Join(texts)
         /\ result.images = <<>> /\ texts = <<>> /\ file_ids = <<>>

\* A body that carried an answer and an image on its lines but does not
\* parse as a whole has been returned for.
C14_Witness ==
    /\ full_response.shape = "invalid"
    /\ asm_pc = "done"
    /\ \E e \in 1..Len(full_response.lines) :
         LET data == full_response.lines[e]
         IN  /\ data.sar /\ data.generated
             /\ \E j \in 1..Len(data.replies) : data.replies[j].says = "answer"

HasDotDot(name) ==
    \E k \in 1..(Len(name) - 1) : name[k] = "." /\ name[k + 1] = "."

\* C16: a requested name that contains '..' or starts with '/' is answered
\* 404 without any access to storage, whether a file of that name exists or
\* not; storage is reached only for names that have neither.
C16_TraversalRejected ==
    call.fn = "serve_image"
      => LET unsafe == HasDotDot(call.filename) \/ call.filename[1] = "/"
         IN  /\ unsafe => /\ ~call.touched
                          /\ call.pc \in {"check", "done"}
                          /\ call.pc = "done" => call.status = 404
             /\ (call.touched \/ call.pc \in {"exists", "send"}) => ~unsafe

\* A name with '..' inside that does not start with a separator, for which
\* a file exists, was refused.
C16_Witness ==
    /\ call.fn = "serve_image" /\ call.pc = "done"
    /\ call.filename = <<"a", "/", ".", ".">>
    /\ call.stored /\ call.status = 404 /\ ~call.touched

\* C17: a token minted by create_jwt is valid for exactly 300 seconds from
\* the time of minting: nbf = iat = the mint time and exp = iat + 300,
\* whenever it is minted.
C17_ValidityWindow ==
    [][\A r \in Requests :
         (pc[r] = "jwt_call" /\ pc'[r] = "ensure_session")
           => /\ jwt'[r].iat = now
              /\ jwt'[r].nbf = now
              /\ jwt'[r].exp = jwt'[r].iat + Ticks(300)
              /\ jwt'[r].sub = accounts[account_idx[r]].csesidx]_vars

\* A request holds a token minted well after the clock's origin, which is
\* also the cached one of its account.
C17_Witness ==
    \E r \in Requests :
      /\ pc[r] = "ensure_session"
      /\ jwt[r].iat >= 4 /\ jwt[r].nbf = jwt[r].iat
      /\ jwt[r].exp = jwt[r].iat + 10
      /\ account_states[account_idx[r]].jwt = jwt[r]
      /\ account_states[account_idx[r]].jwt_time = jwt[r].iat

\* C18: when the creation of the session or the sending of the chat request
\* fails for an account during a dispatch, the account's availability flag,
\* its reason and its time of unavailability are as before, in the record
\* and in the runtime state, by which the available pool is drawn.
C18_OtherFailuresKeepAvailability ==
    [][\A r \in Requests :
         (pc[r] \in {"session_call", "chat_call"} /\ failed'[r] = failed[r] + 1)
           => LET i == account_idx[r] IN
              /\ raised'[r] \in {SessionError, SendError}
              /\ accounts'[i].available = accounts[i].available
              /\ accounts'[i].unavailable_reason = accounts[i].unavailable_reason
              /\ accounts'[i].unavailable_time = accounts[i].unavailable_time
              /\ account_states'[i].available = account_states[i].available
              /\ StateAvailable(i)' = StateAvailable(i)]_vars

\* A request lost an attempt to a failed session creation and another to a
\* failed send, and all accounts are in the pool still.
C18_Witness ==
    \E r \in Requests :
      /\ failed[r] = 2 /\ raised[r] = SendError
      /\ last_error[r] = SendError
      /\ pc[r] = "select"
      /\ \A i \in Accounts : accounts[i].available /\ StateAvailable(i)
      /\ Len(get_available_accounts) = NumAccounts

\* C19 (as claimed): whenever the exchange answers with a status other than
\* 200, whatever its body, get_jwt_for_account returns no token and
\* ensure_jwt_for_account caches none.
C19_NonOkFails ==
    (call.fn = "get_jwt_for_account" /\ call.pc \in {"parse", "mint", "returned", "raised"}
     /\ call.resp.status \notin {0, 200})
      => /\ call.pc # "returned"
         /\ call.token = NoJwt
         /\ account_states[call.account_idx].jwt = NoJwt

\* The position of the last user message of the list, 0 without one.
LastUser(messages) ==
    LET users == {k \in 1..Len(messages) : messages[k].role = "user"}
    IN  IF users = {} THEN 0 ELSE CHOOSE k \in users : \A j \in users : j <= k

\* C20 (as claimed): what is forwarded upstream is the text and the image
\* parts of the last user message of the request, and nothing of an earlier
\* message.
C20_LastUserMessageOnly ==
    (call.fn = "chat_completions" /\ call.pc = "forwarded")
      => LET last == LastUser(call.messages) IN
         /\ last # 0
         /\ call.user_message = TextIn(last, call.messages[last])
         /\ call.input_images = ImagesIn(last, call.messages[last])

\* C21 (as claimed): every request that has started its dispatch reaches a
\* success response or the all-accounts-failed error, whatever fails in its
\* attempts, as long as its thread is scheduled and every outbound call
\* returns or raises.
C21_DispatchTerminates ==
    \A r \in Requests :
        (pc[r] = "select") ~> (pc[r] \in {"done", "failed"})

\* C22 (as claimed): no thread asks for the registry lock while it holds
\* it.
C22_NoRequestWhileHolding ==
    \A r \in Requests : pc[r] = "mark_lock" => lock # r

\* C23: the statements of one get_next_account call do not interleave with
\* those of another, and with k available accounts, the available set being
\* unchanged, any k consecutive selections of the concurrent requests are k
\* distinct accounts.
C23_SelectionAtomic ==
    LET k   == Len(get_available_accounts)
        log == obs.log
    IN  /\ Cardinality({r \in Requests : pc[r] \in InSelection}) <= 1
        /\ \A r \in Requests : pc[r] \in InSelection => lock = r
        /\ \A j \in DOMAIN log :
             j + k - 1 <= Len(log)
               => Cardinality({log[m] : m \in j .. (j + k - 1)}) = k

\* Both threads have selected, six selections over three available accounts
\* are noted, and one thread is inside a selection.
C23_Witness ==
    /\ Len(get_available_accounts) = 3
    /\ Len(obs.log) = 6
    /\ account_idx[1] # NoIndex /\ account_idx[2] # NoIndex
    /\ account_idx[1] # account_idx[2]
    /\ pc[1] = "advance" /\ pc[2] = "idle"

\* C24 (as claimed): the registry (account records, runtime states with the
\* cached tokens and sessions, cursor) is written only under the lock, so
\* while a thread holds the lock, for a refresh or a session creation in
\* progress, the registry is written by that thread only.
C24_WritesUnderLock ==
    [][\A r \in Requests :
         (lock = r /\ registry' # registry) => pc'[r] # pc[r]]_vars

\* C25: ensure_jwt_for_account starts a token exchange exactly when the
\* account has no cached token or its cached token is more than 240 s old;
\* otherwise it returns the cached token, calls nothing and leaves the
\* cached token and its time alone.  After a successful exchange the cached
\* token is the one just minted and its time is that of the exchange.
C25_RefreshExactlyWhenStale ==
    [][\A r \in Requests :
         LET i     == account_idx[r]
             state == account_states[i]
             stale == state.jwt = NoJwt \/ (now - state.jwt_time) * 30 > 240
         IN  /\ (pc[r] = "ensure_jwt" /\ pc'[r] # "ensure_jwt")
                  => IF stale
                     THEN /\ pc'[r] = "jwt_call"
                          /\ account_states' = account_states
                     ELSE /\ pc'[r] = "ensure_session"
                          /\ jwt'[r] = state.jwt
                          /\ account_states' = account_states
             /\ (pc[r] = "jwt_call" /\ pc'[r] = "ensure_session")
                  => /\ account_states'[i].jwt = jwt'[r]
                     /\ jwt'[r].iat = now
                     /\ account_states'[i].jwt_time = now]_vars

\* A token cached 240 s ago was returned as it is.
C25_Witness ==
    \E r \in Requests :
      /\ pc[r] = "ensure_session"
      /\ now = 8
      /\ jwt[r] = create_jwt(account_idx[r], 0)
      /\ account_states[account_idx[r]].jwt = jwt[r]
      /\ account_states[account_idx[r]].jwt_time = 0

\* C26 (as claimed): when the body is an array of envelopes, the thoughts
\* of the result returned are the texts of the replies that have a text
\* flagged as thought, in stream order, and none of them is in the text of
\* the result.
C26_ThoughtsRetained ==
    (asm_pc = "done" /\ full_response.shape = "array")
      => LET lines == full_response.lines
             IsThought(pos) ==
                 pos[2] > 0 /\ ReplyAt(lines, pos).says = "thought"
             thought_texts == SelectSeq(StreamOrder(lines, 1), IsThought)
         IN  /\ result.thoughts = thought_texts
             /\ \A k \in DOMAIN thought_texts :
                  thought_texts[k] \notin Range(result.text)

\* C27 (as claimed): when a dispatch has ended with the all-accounts-failed
\* error, every available account was given to it at least once, and none
\* was given to it twice while an available one was never given to it, also
\* with other requests selecting concurrently.
C27_FailoverCovers ==
    \A r \in Requests :
        (pc[r] = "failed" /\ max_retries[r] > 0)
          => LET times == obs.tried[r]
                 pool  == Range(get_available_accounts)
             IN  /\ \A i \in pool : times[i] >= 1
                 /\ (\E i \in Accounts : times[i] >= 2)
                      => \A j \in pool : times[j] >= 1

\* C28: a chat request sweeps the cache once, as its first step: the sweep
\* has returned before the request is validated, selects an account or
\* calls the upstream, whatever becomes of the request, it is not run again
\* by that request, and nothing but a chat request at its start runs it.
C28_SweepFirstAndOnce ==
    /\ [](\A r \in Requests : pc[r] # "idle" => sweep[r].pc = "swept")
    /\ [][\A r \in Requests :
            /\ sweep'[r] # sweep[r] => (pc[r] = "idle" /\ pc'[r] = "idle")
            /\ sweep[r].pc = "swept" => sweep'[r] = sweep[r]
            /\ (image_cache' # image_cache
                /\ \E f \in FileNames :
                     image_cache[f].present /\ ~image_cache'[f].present)
                 => \E q \in Requests : sweep[q].pc = "sweeping"]_vars

\* A request that swept over two stored files was then rejected with 400.
C28_Witness ==
    /\ pc[1] = "rejected"
    /\ sweep[1].pc = "swept"
    /\ sweep[1].listed = {1, 2}

\* C29: with no account available, get_next_account raises the
\* no-accounts-available error and leaves the registry (records, flags,
\* cached tokens and sessions, cursor) as it was; a dispatch over N > 0
\* accounts of which none is available calls nothing upstream and is
\* answered with the all-accounts-failed error carrying that error.
C29_NoneAvailable ==
    /\ [](AvailableSet(account_states) = {}
            => \A r \in Requests :
                 /\ pc[r] \in {"idle", "rejected", "select", "failed"}
                 /\ pc[r] = "failed"
                      => /\ response[r] = AllFailed(NoAccountsErr)
                         /\ failed[r] = NumAccounts)
    /\ [][\A r \in Requests :
            (/\ AvailableSet(account_states) = {}
             /\ pc[r] = "select"
             /\ <<pc[r], attempt[r]>>' # <<pc[r], attempt[r]>>)
              => /\ raised'[r] = NoAccountsErr
                 /\ last_error'[r] = NoAccountsErr
                 /\ failed'[r] = failed[r] + 1
                 /\ registry' = registry
                 /\ lock' = lock]_vars

\* No account is available, two of them have a token and a session cached,
\* and the request was answered after three selections that raised.
C29_Witness ==
    \E r \in Requests :
      /\ AvailableSet(account_states) = {}
      /\ pc[r] = "failed" /\ failed[r] = 3
      /\ response[r] = AllFailed(NoAccountsErr)
      /\ account_states[0].jwt # NoJwt /\ account_states[1].session # NoSession
      /\ account_states[2].jwt = NoJwt

\* C30 (as claimed): at every state, whatever dispatches and account
\* operations led to it, the token cached at an index was minted from the
\* credentials the account at that index has now, and the session cached
\* at an index was created under the team id that account has now.
C30_CachesBelong ==
    \A i \in DOMAIN account_states :
      /\ i \in DOMAIN accounts
      /\ account_states[i].jwt # NoJwt
           => account_states[i].jwt.sub = accounts[i].csesidx
      /\ account_states[i].session # NoSession
           => SessionConfig(account_states[i].session) = accounts[i].team_id

\* C31 (as claimed): ensure_session_for_account never returns an absent
\* session name, so a request that is at the send step, or in any call of
\* stream_chat_with_images after it, holds a session name.
C31_SessionPresent ==
    \A r \in Requests :
      pc[r] \in {"send", "image_download", "chat_call", "meta_call", "download"}
        => session[r] # NoSession

\* C32 (as claimed): every persisted image has a cache file of its own
\* inside the cache directory: no two persisted images share a file name,
\* and the file an image's name leads to holds that image's bytes.
C32_OwnFile ==
    call.fn = "save_image_to_cache" =>
      \A i \in 1 .. Len(call.images) :
        LET img == call.images[i] IN
        /\ img.file_name.dir = ""
        /\ \A j \in 1 .. Len(call.images) :
             i # j => call.images[j].file_name # img.file_name
        /\ [path |-> img.file_name, data |-> img.data] \in call.files

====
